---- MODULE Spec2Model ----
(***************************************************************************)
(* AskQss: the RAG orchestrator (backend/app/services/rag_service.py), the *)
(* Vector Index access layer (vector_store.py) and the text extraction     *)
(* and chunking front (document_processor.py), as a state machine.         *)
(*                                                                         *)
(* Abstractions.                                                           *)
(*  - A string is a record [pre, rest, len]: pre names its first 200       *)
(*    characters, rest is the token sequence of what follows them, len is  *)
(*    its length.  A whitespace-only string has pre = "".                  *)
(*  - A dict is a function from key strings to values.                     *)
(*  - A uuid4 draw is the next unused number.                              *)
(*  - Distances are in tenths (cosine distance 0.1 is 1); the embedding    *)
(*    model and the index's metric are a fixed table over (question, text).*)
(*  - Timestamps are tokens.                                               *)
(***************************************************************************)
EXTENDS Integers, Sequences, FiniteSets, TLC

\* Bound: how many document ids (uuid4 draws) a run may use.
MaxDocs == 2

\* Bound: how many records of its batch a failing index write may leave behind.
MaxWritten == 1

\* chat_endpoint passes top_k=5 (also query's default).
TopK == 5

\* The preview cut of a source's content.
PreviewLen == 200

VARIABLES
  initialized,          \* RAGService.initialized
  vs_initialized,       \* VectorStoreService.initialized
  documents_metadata,   \* RAGService.documents_metadata: doc id -> dict
  collection,           \* the Chroma collection: a set of chunk records
  uuid_count,           \* uuid4 draws so far
  op,                   \* the last operation: "none", "add", "query", "delete"
  arg,                  \* its argument (file path, question, document id)
  outcome,              \* "ok" or the exception type it raised
  stage,                \* where it failed ("" when it did not)
  doc_id_ret,           \* add_document's return value (0: none)
  search_results,       \* the retrieval of the last query
  llm_out,              \* what the model returned to the last query
  response,             \* query's return value
  calls,                \* external calls made by the last operation
  vs_handles,           \* VectorStoreService.client and .collection (0: None)
  status,               \* HTTP status of the last endpoint request (0: none)
  upload_dir,           \* names of the files in settings.upload_dir
  tasks,                \* add_document coroutines in flight: task -> frame
  vs_ret                \* return value of the last direct access-layer call

vars == <<initialized, vs_initialized, documents_metadata, collection, uuid_count,
          op, arg, outcome, stage, doc_id_ret, search_results, llm_out, response,
          calls, vs_handles, status, upload_dir, tasks, vs_ret>>

\* What the orchestrator's operations leave alone: the endpoints, the
\* coroutines in flight and the direct callers of the access layer set it.
request_vars == <<status, upload_dir, tasks, vs_ret>>

----------------------------------------------------------------------------
(* Strings *)

Str(pre, rest, len) == [pre |-> pre, rest |-> rest, len |-> len]

\* str.strip() == "" : the string is empty or whitespace only.
IsBlank(s) == s.pre = ""

\* s[:200]
Slice(s) == Str(s.pre, <<>>, IF s.len > PreviewLen THEN PreviewLen ELSE s.len)

\* s + "..."
AppendEllipsis(s) == Str(s.pre, Append(s.rest, "..."), s.len + 3)

(* Dicts *)

\* {**base, **over}: the later dict wins on a shared key.
Merge(base, over) ==
  [k \in (DOMAIN base) \cup (DOMAIN over) |->
      IF k \in DOMAIN over THEN over[k] ELSE base[k]]

\* d.get(key, default)
DictGet(d, key, default) == IF key \in DOMAIN d THEN d[key] ELSE default

----------------------------------------------------------------------------
(* The inputs: files on disk, questions, model outputs *)

S1 == Str("s1", <<"s1b">>, 201)
S2 == Str("s2", <<"s2b">>, 900)
S3 == Str("s3", <<>>, 200)
WS == Str("", <<>>, 4)
L1 == Str("l1", <<>>, 40)
H1 == Str("h1", <<"h1b">>, 990)
H2 == Str("h2", <<"h2b">>, 990)
H3 == Str("h3", <<"h3b">>, 990)
H4 == Str("h4", <<"h4b">>, 990)

\* A file: its path name, its suffix, its size, and its text as the sequence of
\* segments the splitter cuts it into (each at most chunk_size long, two
\* neighbours too long to be merged into one chunk).
Files ==
  { [name |-> "policy.txt", suffix |-> ".txt", size |-> 1305, segments |-> <<S1, WS, S2, S3>>],
    [name |-> "handbook.txt", suffix |-> ".txt", size |-> 4958,
     segments |-> <<H1, H2, H2, H3, H4>>],
    [name |-> "blank.txt",  suffix |-> ".txt", size |-> 4,    segments |-> <<WS>>],
    [name |-> "readme.md",  suffix |-> ".md",  size |-> 40,   segments |-> <<L1>>] }

Questions == {"q_policy", "q_other"}

NotRelatedMsg == "This question is not related to QSS Technosoft."
InsufficientMsg == "I don't have enough information in the knowledge base to answer this question."

LLMOutputs == {"an answer", NotRelatedMsg}

\* The metadata upload_document passes to add_document.
UploadMetadata == [upload_date |-> "t_upload", status |-> "active"]

CallerMetadata == {UploadMetadata}

\* A record another writer left in the persisted collection: no 'source' key.
LegacyRecord == [id |-> <<0, 0>>, document |-> L1, metadata |-> [topic |-> "legacy"]]

PersistedCollections == {{}, {LegacyRecord}}

NoArg == [file |-> "", question |-> "", document_id |-> -1]

NoCalls == [embed |-> 0, add |-> 0, search |-> 0, get |-> 0, delete |-> 0, llm |-> 0]

NoResponse == [answer |-> "", sources |-> <<>>, context_used |-> FALSE]

----------------------------------------------------------------------------
\* self.client = None, self.collection = None
NoHandles == [client |-> 0, collection |-> 0]

\* No count, no ids returned.
NoReturn == [count |-> -1, ids |-> {}]

Init ==
  /\ initialized = FALSE
  /\ vs_initialized = FALSE
  /\ documents_metadata = <<>>
  /\ collection \in PersistedCollections
  /\ uuid_count = 0
  /\ op = "none"
  /\ arg = NoArg
  /\ outcome = "ok"
  /\ stage = ""
  /\ doc_id_ret = 0
  /\ search_results = <<>>
  /\ llm_out = ""
  /\ response = NoResponse
  /\ calls = NoCalls
  /\ vs_handles = NoHandles
  /\ status = 0
  /\ upload_dir = {}
  /\ tasks = <<>>
  /\ vs_ret = NoReturn

----------------------------------------------------------------------------
(* DocumentProcessor *)

SupportedSuffixes == {".pdf", ".docx", ".txt", ".xlsx", ".xls", ".csv"}

\* _process_txt: [text] if text.strip() else []
\* (the text joined by "\n\n" is then the text itself, or "").
process_txt(file) ==
  IF \A i \in 1..Len(file.segments) : IsBlank(file.segments[i])
    THEN <<>>
    ELSE file.segments

\* process_file: the suffix dispatch; an unsupported suffix raises ValueError,
\* which the except clause rewraps as Exception, as it does an I/O failure.
process_file(file, io_error) ==
  IF io_error \/ file.suffix \notin SupportedSuffixes
    THEN [ok |-> FALSE, text |-> <<>>, filename |-> file.name,
          file_type |-> file.suffix, size |-> file.size]
    ELSE [ok |-> TRUE, text |-> process_txt(file), filename |-> file.name,
          file_type |-> file.suffix, size |-> file.size]

\* chunk_text: the splitter's pieces, whitespace-only pieces dropped.
chunk_text(text) == SelectSeq(text, LAMBDA s : ~IsBlank(s))

----------------------------------------------------------------------------
(* RAGService.initialize and VectorStoreService.initialize *)

\* VectorStoreService.initialize that succeeds: returns at once when already
\* initialized; otherwise a new PersistentClient (the next one constructed)
\* and the collection got from it.
HandlesAfterInitialize(was_initialized, handles) ==
  IF was_initialized THEN handles
  ELSE [client |-> handles.client + 1, collection |-> handles.client + 1]

Initialize ==
  /\ initialized' = TRUE
  /\ vs_initialized' = TRUE
  /\ vs_handles' = HandlesAfterInitialize(vs_initialized, vs_handles)
  /\ op' = "initialize"
  /\ arg' = NoArg
  /\ outcome' = "ok"
  /\ stage' = ""
  /\ doc_id_ret' = 0
  /\ search_results' = <<>>
  /\ llm_out' = ""
  /\ response' = NoResponse
  /\ calls' = NoCalls
  /\ UNCHANGED <<documents_metadata, collection, uuid_count>>

----------------------------------------------------------------------------
(* RAGService.add_document *)

\* Mutant: a draw that returns the same id again.
uuid4Repeated(count) == 1

\* uuid.uuid4(): an id no earlier draw returned.
uuid4(count) == count + 1

\* f"{doc_id}_chunk_{i}"
ChunkId(doc_id, i) == <<doc_id, i>>

\* Mutant: chunk_index counted from one.
ChunkMetadataOneBased(doc_data, doc_id, i, n, metadata) ==
  Merge([source |-> doc_data.filename,
         document_id |-> doc_id,
         chunk_index |-> i + 1,
         total_chunks |-> n,
         file_type |-> doc_data.file_type],
        metadata)

\* The per-chunk metadata dict, the caller's metadata spread last.
ChunkMetadata(doc_data, doc_id, i, n, metadata) ==
  Merge([source |-> doc_data.filename,
         document_id |-> doc_id,
         chunk_index |-> i,
         total_chunks |-> n,
         file_type |-> doc_data.file_type],
        metadata)

\* The batch handed to vector_store.add_documents, one record per chunk.
ChunkRecords(doc_data, chunks, doc_id, metadata) ==
  { [id |-> ChunkId(doc_id, i),
     document |-> chunks[i + 1],
     metadata |-> ChunkMetadata(doc_data, doc_id, i, Len(chunks), metadata)] :
    i \in 0..(Len(chunks) - 1) }

\* The registry entry, the caller's metadata spread last.
DocumentRecord(doc_data, doc_id, chunks, metadata) ==
  Merge([id |-> doc_id,
         filename |-> doc_data.filename,
         file_type |-> doc_data.file_type,
         size |-> doc_data.size,
         upload_date |-> "t_now",
         chunks_count |-> Len(chunks)],
        metadata)

\* Mutant: the emptiness check left out.
NoContentUnchecked(chunks) == FALSE

\* if not chunks: raise ValueError
NoContent(chunks) == chunks = <<>>

\* Where add_document stops: "" when it runs to its return.
AddStage(doc_data, chunks, fault) ==
  IF ~doc_data.ok THEN "extract"
  ELSE IF NoContent(chunks) THEN "chunk"
  ELSE IF fault \in {"embed", "index"} THEN fault
  ELSE ""

\* collection.add of a batch: all of it, or, when the write fails, the first
\* `written` records of the batch (the index has no transactions).
IndexAfterAdd(coll, records, at, written) ==
  IF at = "" THEN coll \cup records
  ELSE IF at = "index" THEN coll \cup {r \in records : r.id[2] < written}
  ELSE coll

\* Mutant: the registry written before the index write is known to have succeeded.
RegistryAfterAddEarly(reg, at, doc_id, record) ==
  IF at \in {"", "index"}
    THEN [k \in (DOMAIN reg) \cup {doc_id} |-> IF k = doc_id THEN record ELSE reg[k]]
    ELSE reg

\* self.documents_metadata[doc_id] = {...}: reached when add_documents returned.
RegistryAfterAdd(reg, at, doc_id, record) ==
  IF at = "" THEN [k \in (DOMAIN reg) \cup {doc_id} |-> IF k = doc_id THEN record ELSE reg[k]]
  ELSE reg

AddFaults == {"none", "extract", "embed", "index"}

AddDocument(file, metadata, fault, written) ==
  LET doc_data == process_file(file, fault = "extract")
      chunks   == chunk_text(doc_data.text)
      at       == AddStage(doc_data, chunks, fault)
      doc_id   == uuid4(uuid_count)
      drawn    == at \in {"", "embed", "index"}
  IN /\ uuid_count < MaxDocs
     /\ IF at = "index" THEN written \in 0..(Len(chunks) - 1) ELSE written = 0
     /\ fault # "none" => at = fault
     /\ initialized' = TRUE
     /\ vs_initialized' = TRUE
     /\ vs_handles' = HandlesAfterInitialize(vs_initialized, vs_handles)
     /\ op' = "add"
     /\ arg' = [NoArg EXCEPT !.file = file.name]
     /\ stage' = at
     /\ outcome' = CASE at = "" -> "ok"
                     [] at = "chunk" -> "ValueError"
                     [] OTHER -> "Exception"
     /\ uuid_count' = IF drawn THEN doc_id ELSE uuid_count
     /\ doc_id_ret' = IF at = "" THEN doc_id ELSE 0
     /\ calls' = [NoCalls EXCEPT !.embed = IF drawn THEN 1 ELSE 0,
                                 !.add = IF at \in {"", "index"} THEN 1 ELSE 0]
     /\ collection' = IndexAfterAdd(collection,
                                    ChunkRecords(doc_data, chunks, doc_id, metadata),
                                    at, written)
     /\ documents_metadata' = RegistryAfterAdd(documents_metadata, at, doc_id,
                                    DocumentRecord(doc_data, doc_id, chunks, metadata))
     /\ search_results' = <<>>
     /\ llm_out' = ""
     /\ response' = NoResponse

----------------------------------------------------------------------------
(* VectorStoreService.similarity_search *)

\* The distance of a stored text to the question's embedding, in tenths.
Distance(question, text) ==
  IF question = "q_policy"
    THEN CASE text.pre = "s1" -> 1
           [] text.pre = "s2" -> 3
           [] text.pre = "s3" -> 5
           [] text.pre = "l1" -> 12
           [] OTHER -> 14
    ELSE CASE text.pre = "h1" -> 1
           [] text.pre \in {"h2", "h3"} -> 2
           [] text.pre = "h4" -> 3
           [] text.pre = "l1" -> 4
           [] text.pre = "s3" -> 6
           [] text.pre = "s2" -> 8
           [] OTHER -> 15

\* Whether record a comes before record b in the index's answer: by distance,
\* and at the same distance by id, upwards or downwards (the index fixes no
\* order among records at the same distance; `tie` is the order it takes).
Closer(a, b, question, tie) ==
  LET da == Distance(question, a.document)
      db == Distance(question, b.document)
      lower == \/ a.id[1] < b.id[1]
               \/ a.id[1] = b.id[1] /\ a.id[2] < b.id[2]
  IN \/ da < db
     \/ da = db /\ a.id # b.id /\ (tie = "up") = lower

TieOrders == {"up", "down"}

\* collection.query(n_results=top_k): the k nearest records, closest first,
\* fewer when the collection holds fewer.
RECURSIVE Nearest(_, _, _, _)
Nearest(records, question, k, tie) ==
  IF k = 0 \/ records = {} THEN <<>>
  ELSE LET first == CHOOSE r \in records :
                      \A x \in records \ {r} : Closer(r, x, question, tie)
       IN <<first>> \o Nearest(records \ {first}, question, k - 1, tie)

\* One formatted result.
FormatResult(r, question) ==
  [document |-> r.document,
   metadata |-> r.metadata,
   distance |-> Distance(question, r.document),
   id |-> r.id]

\* similarity_search: the formatted results, [] when the query found nothing.
similarity_search(coll, question, top_k, tie) ==
  LET hits == Nearest(coll, question, top_k, tie)
  IN [i \in 1..Len(hits) |-> FormatResult(hits[i], question)]

----------------------------------------------------------------------------
(* RAGService.query *)

\* Mutant: the cut taken at 200 characters and more.
PreviewOffByOne(text) ==
  IF text.len >= PreviewLen THEN AppendEllipsis(Slice(text)) ELSE text

\* result['document'][:200] + "..." if len(result['document']) > 200
\*   else result['document']
Preview(text) ==
  IF text.len > PreviewLen THEN AppendEllipsis(Slice(text)) ELSE text

\* Mutant: the distance returned as the score.
RelevanceScoreRaw(distance) == distance

\* float(1 - result['distance']), in tenths.
RelevanceScore(distance) == 10 - distance

\* Mutant: the name read from a key the chunk metadata does not have.
SourceWrongKey(result) ==
  [document_name |-> DictGet(result.metadata, "filename", "Unknown"),
   content |-> Preview(result.document),
   relevance_score |-> RelevanceScore(result.distance)]

\* One entry of the sources list.
Source(result) ==
  [document_name |-> DictGet(result.metadata, "source", "Unknown"),
   content |-> Preview(result.document),
   relevance_score |-> RelevanceScore(result.distance)]

\* Mutant: an entry is dropped when an earlier entry is the same excerpt.
RECURSIVE DedupFrom(_, _)
DedupFrom(all, i) ==
  IF i > Len(all) THEN <<>>
  ELSE (IF \E j \in 1..(i - 1) : /\ all[j].document_name = all[i].document_name
                                 /\ all[j].content = all[i].content
          THEN <<>> ELSE <<all[i]>>) \o DedupFrom(all, i + 1)

BuildSourcesDedup(results) ==
  DedupFrom([i \in 1..Len(results) |-> Source(results[i])], 1)

\* The sources list: one entry per result, appended in the order of the loop.
BuildSources(results) == [i \in 1..Len(results) |-> Source(results[i])]

\* if not search_results: the fixed answer, no sources, context_used False.
EmptyRetrievalResponse ==
  [answer |-> InsufficientMsg, sources |-> <<>>, context_used |-> FALSE]

\* Mutant: grounded withheld when the model answered the not-related message.
GroundedResponseByAnswer(results, output) ==
  [answer |-> output, sources |-> BuildSources(results),
   context_used |-> output # NotRelatedMsg]

\* The return value after the model answered.
GroundedResponse(results, output) ==
  [answer |-> output, sources |-> BuildSources(results), context_used |-> TRUE]

\* Mutant: the model invoked before the emptiness check.
LLMCallsAlways(results) == 1

\* Calls of self.llm.invoke in a query: none when retrieval is empty.
LLMCalls(results) == IF results = <<>> THEN 0 ELSE 1

QueryFaults == {"none", "embed", "search", "llm"}

\* The search is not reached when the query embedding fails, and returns
\* nothing when it fails itself; the model is asked only after a non-empty
\* retrieval.
Query(question, fault, tie) ==
  \E results \in (IF fault \in {"embed", "search"} THEN {<<>>}
                  ELSE {similarity_search(collection, question, TopK, tie)}) :
    \E output \in (IF fault = "none" /\ results # <<>> THEN LLMOutputs ELSE {""}) :
      /\ fault = "llm" => results # <<>>
      /\ initialized' = TRUE
      /\ vs_initialized' = TRUE
      /\ vs_handles' = HandlesAfterInitialize(vs_initialized, vs_handles)
      /\ op' = "query"
      /\ arg' = [NoArg EXCEPT !.question = question]
      /\ stage' = IF fault = "none" THEN "" ELSE fault
      /\ outcome' = IF fault = "none" THEN "ok" ELSE "Exception"
      /\ doc_id_ret' = 0
      /\ search_results' = results
      /\ llm_out' = output
      /\ calls' = [NoCalls EXCEPT
                     !.embed = 1,
                     !.search = IF fault = "embed" THEN 0 ELSE 1,
                     !.llm = IF fault \in {"embed", "search"} THEN 0 ELSE LLMCalls(results)]
      /\ response' = IF fault # "none" THEN NoResponse
                     ELSE IF results = <<>> THEN EmptyRetrievalResponse
                     ELSE GroundedResponse(results, output)
      /\ UNCHANGED <<documents_metadata, collection, uuid_count>>

----------------------------------------------------------------------------
(* RAGService.delete_document *)

\* Mutant: only the document's first chunk id is resolved.
ChunkIdsOfFirst(coll, document_id) ==
  { r.id : r \in { x \in coll : /\ "document_id" \in DOMAIN x.metadata
                                /\ x.metadata["document_id"] = document_id
                                /\ x.metadata["chunk_index"] = 0 } }

\* collection.get(where={"document_id": document_id})['ids']
ChunkIdsOf(coll, document_id) ==
  { r.id : r \in { x \in coll : /\ "document_id" \in DOMAIN x.metadata
                                /\ x.metadata["document_id"] = document_id } }

\* vector_store.delete_documents(ids)
IndexAfterDelete(coll, ids) == { r \in coll : r.id \notin ids }

\* Mutant: the registry entry left in place.
RegistryAfterDeleteKept(reg, document_id) == reg

\* if document_id in self.documents_metadata: del self.documents_metadata[document_id]
RegistryAfterDelete(reg, document_id) ==
  [k \in (DOMAIN reg) \ {document_id} |-> reg[k]]

\* Mutant: the registry removal done whether or not the index calls raised.
RemovalReachedAlways(fault) == TRUE

\* The registry removal follows the index calls with no handler between: it
\* is reached when neither raised.
RemovalReached(fault) == fault = "none"

DocIds == 0..MaxDocs

DeleteFaults == {"none", "get", "delete"}

\* The registry removal is not reached when the lookup or the delete raises;
\* the delete is not called when the lookup found no chunk.  `removed`: a
\* collection.delete that raised had removed the records before it did.
DeleteDocument(document_id, fault, removed) ==
  LET ids == ChunkIdsOf(collection, document_id)
  IN /\ fault = "delete" => ids # {}
     /\ removed => fault = "delete"
     /\ initialized' = TRUE
     /\ vs_initialized' = TRUE
     /\ vs_handles' = HandlesAfterInitialize(vs_initialized, vs_handles)
     /\ op' = "delete"
     /\ arg' = [NoArg EXCEPT !.document_id = document_id]
     /\ stage' = IF fault = "none" THEN "" ELSE fault
     /\ outcome' = IF fault = "none" THEN "ok" ELSE "Exception"
     /\ calls' = [NoCalls EXCEPT
                    !.get = 1,
                    !.delete = IF fault # "get" /\ ids # {} THEN 1 ELSE 0]
     /\ collection' = IF fault = "none" \/ removed
                        THEN IndexAfterDelete(collection, ids)
                        ELSE collection
     /\ documents_metadata' = IF RemovalReached(fault)
                                THEN RegistryAfterDelete(documents_metadata, document_id)
                                ELSE documents_metadata
     /\ doc_id_ret' = 0
     /\ search_results' = <<>>
     /\ llm_out' = ""
     /\ response' = NoResponse
     /\ UNCHANGED uuid_count

----------------------------------------------------------------------------
Next ==
  \/ Initialize /\ UNCHANGED request_vars
  \/ \E file \in Files, metadata \in CallerMetadata, fault \in AddFaults,
        written \in 0..MaxWritten :
       AddDocument(file, metadata, fault, written) /\ UNCHANGED request_vars
  \/ \E question \in Questions, fault \in QueryFaults, tie \in TieOrders :
       Query(question, fault, tie) /\ UNCHANGED request_vars
  \/ \E document_id \in DocIds, fault \in DeleteFaults, removed \in BOOLEAN :
       DeleteDocument(document_id, fault, removed) /\ UNCHANGED request_vars

Spec == Init /\ [][Next]_vars

----------------------------------------------------------------------------
(* The orchestrator on a new installation, its collaborators never failing: *)
(* ingestions and deletions that run to their end, and queries.             *)

\* The persisted collection is empty and the process is the first one.
FreshInit == Init /\ collection = {}

FreshNext ==
  \/ Initialize /\ UNCHANGED request_vars
  \/ \E file \in Files, metadata \in CallerMetadata :
       AddDocument(file, metadata, "none", 0) /\ UNCHANGED request_vars
  \/ \E question \in Questions, tie \in TieOrders :
       Query(question, "none", tie) /\ UNCHANGED request_vars
  \/ \E document_id \in DocIds :
       DeleteDocument(document_id, "none", FALSE) /\ UNCHANGED request_vars

FreshSpec == FreshInit /\ [][FreshNext]_vars

----------------------------------------------------------------------------
(* The orchestrator called with any metadata dict, as its signature        *)
(* add_document(document_path, metadata: Dict[str, Any]) admits.           *)

\* A caller metadata that uses the keys the orchestrator sets itself.
ReservedKeysMetadata ==
  [id |-> 0, document_id |-> 0, chunk_index |-> 7, total_chunks |-> 0,
   source |-> "other.txt", chunks_count |-> 0]

AnyCallerMetadata == {UploadMetadata, ReservedKeysMetadata}

AnyMetadataNext ==
  \/ Initialize /\ UNCHANGED request_vars
  \/ \E file \in Files, metadata \in AnyCallerMetadata :
       AddDocument(file, metadata, "none", 0) /\ UNCHANGED request_vars
  \/ \E question \in Questions, tie \in TieOrders :
       Query(question, "none", tie) /\ UNCHANGED request_vars
  \/ \E document_id \in DocIds :
       DeleteDocument(document_id, "none", FALSE) /\ UNCHANGED request_vars

AnyMetadataSpec == Init /\ [][AnyMetadataNext]_vars

----------------------------------------------------------------------------
(* The endpoints: api/chat.py and api/documents.py, served after the app's *)
(* lifespan has run rag_service.initialize().                              *)

\* lifespan: the startup hook; the app serves no request before it returned.
Lifespan ==
  /\ ~initialized
  /\ Initialize
  /\ status' = 0
  /\ UNCHANGED <<upload_dir, tasks, vs_ret>>

\* Mutant: the error answered as a success.
ChatStatusAlwaysOk(result) == 200

\* chat_endpoint: the ChatResponse (200), or, on any exception of the query,
\* HTTPException(status_code=500).
ChatStatus(result) == IF result = "ok" THEN 200 ELSE 500

ChatEndpoint(question, fault, tie) ==
  /\ initialized
  /\ Query(question, fault, tie)
  /\ status' = ChatStatus(outcome')
  /\ UNCHANGED <<upload_dir, tasks, vs_ret>>

ALLOWED_EXTENSIONS == {".pdf", ".docx", ".txt", ".xlsx", ".xls", ".csv"}

\* validate_file passes: the suffix is in the allow-list.
ValidFile(file) == file.suffix \in ALLOWED_EXTENSIONS

\* f"{file_stem}_{timestamp}{file_ext}"
Stamped(name) ==
  CASE name = "policy.txt" -> "policy_t.txt"
    [] name = "handbook.txt" -> "handbook_t.txt"
    [] name = "blank.txt" -> "blank_t.txt"
    [] OTHER -> "readme_t.md"

\* file_path: upload_dir / file.filename, stamped when that path exists.
SavedName(file, dir) == IF file.name \in dir THEN Stamped(file.name) ELSE file.name

\* The status upload_document answers with.  `raised` is what left the try
\* body ("ok": nothing), `bound` whether file_path was assigned by then.  Both
\* handlers read file_path first: unbound, the read raises UnboundLocalError,
\* which leaves the endpoint unhandled (500).  HTTPException is not a
\* ValueError, so the second handler takes it (500).
UploadStatus(raised, bound) ==
  CASE raised = "ok" -> 201
    [] ~bound -> 500
    [] raised = "ValueError" -> 400
    [] OTHER -> 500

\* upload_document.  A file that validate_file rejects reaches neither the
\* upload directory nor add_document; any other file is saved and ingested,
\* and removed again when the ingestion raised.
UploadEndpoint(file, fault, written) ==
  /\ initialized
  /\ IF ~ValidFile(file)
       THEN /\ fault = "none"
            /\ written = 0
            /\ op' = "upload"
            /\ arg' = [NoArg EXCEPT !.file = file.name]
            /\ outcome' = "UnboundLocalError"
            /\ stage' = "validate"
            /\ status' = UploadStatus("HTTPException", FALSE)
            /\ doc_id_ret' = 0
            /\ search_results' = <<>>
            /\ llm_out' = ""
            /\ response' = NoResponse
            /\ calls' = NoCalls
            /\ UNCHANGED <<initialized, vs_initialized, vs_handles, documents_metadata,
                           collection, uuid_count, upload_dir, tasks, vs_ret>>
       ELSE LET saved == SavedName(file, upload_dir)
            IN /\ AddDocument([file EXCEPT !.name = saved], UploadMetadata, fault, written)
               /\ status' = UploadStatus(outcome', TRUE)
               /\ upload_dir' = IF outcome' = "ok" THEN upload_dir \cup {saved}
                                ELSE upload_dir \ {saved}
               /\ UNCHANGED <<tasks, vs_ret>>

\* Mutant: an absent id answered as an empty but valid result.
LookupStatusEmptyValid(found) == 200

\* doc = get_document_by_id(document_id); if not doc: raise HTTPException(404),
\* which `except HTTPException: raise` lets through as it is.
LookupStatus(found) == IF found THEN 200 ELSE 404

\* get_document: the entry as DocumentInfo, or HTTPException(404), which the
\* first handler re-raises as it is.
GetEndpoint(document_id) ==
  /\ initialized
  /\ op' = "get"
  /\ arg' = [NoArg EXCEPT !.document_id = document_id]
  /\ outcome' = IF document_id \in DOMAIN documents_metadata THEN "ok" ELSE "HTTPException"
  /\ stage' = IF document_id \in DOMAIN documents_metadata THEN "" ELSE "lookup"
  /\ status' = LookupStatus(document_id \in DOMAIN documents_metadata)
  /\ doc_id_ret' = 0
  /\ search_results' = <<>>
  /\ llm_out' = ""
  /\ response' = NoResponse
  /\ calls' = NoCalls
  /\ UNCHANGED <<initialized, vs_initialized, vs_handles, documents_metadata,
                 collection, uuid_count, upload_dir, tasks, vs_ret>>

\* delete_document (endpoint): HTTPException(404) before the orchestrator is
\* called when the id is not registered; otherwise the orchestrator's delete,
\* then the file removed from the upload directory, best effort.
DeleteEndpoint(document_id, fault, removed) ==
  /\ initialized
  /\ IF document_id \notin DOMAIN documents_metadata
       THEN /\ fault = "none"
            /\ ~removed
            /\ op' = "delete"
            /\ arg' = [NoArg EXCEPT !.document_id = document_id]
            /\ outcome' = "HTTPException"
            /\ stage' = "lookup"
            /\ status' = LookupStatus(FALSE)
            /\ doc_id_ret' = 0
            /\ search_results' = <<>>
            /\ llm_out' = ""
            /\ response' = NoResponse
            /\ calls' = NoCalls
            /\ UNCHANGED <<initialized, vs_initialized, vs_handles, documents_metadata,
                           collection, uuid_count, upload_dir, tasks, vs_ret>>
       ELSE /\ DeleteDocument(document_id, fault, removed)
            /\ status' = IF outcome' = "ok" THEN 200 ELSE 500
            /\ upload_dir' = IF outcome' = "ok"
                               THEN upload_dir \ {documents_metadata[document_id]["filename"]}
                               ELSE upload_dir
            /\ UNCHANGED <<tasks, vs_ret>>

ApiNext ==
  \/ Lifespan
  \/ \E question \in Questions, fault \in QueryFaults, tie \in TieOrders :
       ChatEndpoint(question, fault, tie)
  \/ \E file \in Files, fault \in AddFaults, written \in 0..MaxWritten :
       UploadEndpoint(file, fault, written)
  \/ \E document_id \in DocIds : GetEndpoint(document_id)
  \/ \E document_id \in DocIds, fault \in DeleteFaults, removed \in BOOLEAN :
       DeleteEndpoint(document_id, fault, removed)

ApiSpec == Init /\ [][ApiNext]_vars

----------------------------------------------------------------------------
(* VectorStoreService called directly: every method of the access layer,   *)
(* before and after initialize.                                            *)

\* Bound: how many PersistentClient objects a run may construct.
MaxClients == 2

\* Mutant: the check left out.
NotInitializedUnchecked(was_initialized, handles) == FALSE

\* if not self.initialized or not self.collection: raise RuntimeError
NotInitialized(was_initialized, handles) ==
  ~was_initialized \/ handles.collection = 0

\* What a direct call sets apart from the store and its return value.
VSCall(name, result, at) ==
  /\ op' = name
  /\ outcome' = result
  /\ stage' = at
  /\ arg' = NoArg
  /\ doc_id_ret' = 0
  /\ llm_out' = ""
  /\ response' = NoResponse
  /\ calls' = NoCalls
  /\ UNCHANGED <<initialized, documents_metadata, uuid_count, status, upload_dir, tasks>>

\* A call that stops at the check.
VSRefused(name) ==
  /\ VSCall(name, "RuntimeError", "check")
  /\ search_results' = <<>>
  /\ vs_ret' = NoReturn
  /\ UNCHANGED <<vs_initialized, vs_handles, collection>>

VSInitFaults == {"none", "client", "collection"}

\* initialize: the early return when initialized; else PersistentClient, then
\* get_or_create_collection, then initialized = True.  A raise of the first
\* leaves the object as it was; a raise of the second leaves the new client
\* set, the collection unset and initialized False.
VSInitialize(fault) ==
  /\ search_results' = <<>>
  /\ vs_ret' = NoReturn
  /\ UNCHANGED collection
  /\ IF vs_initialized
       THEN /\ fault = "none"
            /\ VSCall("vs_initialize", "ok", "return")
            /\ UNCHANGED <<vs_initialized, vs_handles>>
       ELSE /\ vs_handles.client < MaxClients
            /\ VSCall("vs_initialize",
                      IF fault = "none" THEN "ok" ELSE "Exception",
                      IF fault = "none" THEN "" ELSE fault)
            /\ vs_initialized' = (fault = "none")
            /\ vs_handles' =
                 CASE fault = "none" -> HandlesAfterInitialize(FALSE, vs_handles)
                   [] fault = "client" -> vs_handles
                   [] OTHER -> [vs_handles EXCEPT !.client = vs_handles.client + 1]

\* The batches a direct caller adds: the chunk records of policy.txt under
\* each document id.
Batches ==
  { ChunkRecords(process_file(f, FALSE), chunk_text(process_file(f, FALSE).text),
                 d, UploadMetadata) :
      f \in { x \in Files : x.name = "policy.txt" }, d \in 1..MaxDocs }

\* What collection.add does with ids the collection already holds depends on
\* the Chroma release: it leaves those records alone, or raises.
DuplicateModes == {"ignore", "raise"}

\* add_documents
VSAdd(batch, dup) ==
  IF NotInitialized(vs_initialized, vs_handles) THEN dup = "ignore" /\ VSRefused("vs_add")
  ELSE LET held == { r.id : r \in collection }
           clash == \E r \in batch : r.id \in held
       IN /\ dup = "raise" => clash
          /\ VSCall("vs_add", IF dup = "raise" THEN "Exception" ELSE "ok",
                    IF dup = "raise" THEN "add" ELSE "")
          /\ collection' = IF dup = "raise" THEN collection
                           ELSE collection \cup { r \in batch : r.id \notin held }
          /\ search_results' = <<>>
          /\ vs_ret' = NoReturn
          /\ UNCHANGED <<vs_initialized, vs_handles>>

\* similarity_search
VSQuery(question, tie) ==
  IF NotInitialized(vs_initialized, vs_handles) THEN tie = "up" /\ VSRefused("vs_query")
  ELSE /\ VSCall("vs_query", "ok", "")
       /\ search_results' = similarity_search(collection, question, TopK, tie)
       /\ vs_ret' = NoReturn
       /\ UNCHANGED <<vs_initialized, vs_handles, collection>>

\* The id lists a direct caller deletes: the three chunk ids of a document id
\* (those of id 0 name the persisted record and two ids never stored).
IdLists == { { ChunkId(d, i) : i \in 0..2 } : d \in 0..MaxDocs }

\* delete_documents: collection.delete, its exception rewrapped.
VSDelete(ids, failing, removed) ==
  IF NotInitialized(vs_initialized, vs_handles)
    THEN ~failing /\ ~removed /\ VSRefused("vs_delete")
  ELSE /\ removed => failing
       /\ VSCall("vs_delete", IF failing THEN "Exception" ELSE "ok",
                 IF failing THEN "delete" ELSE "")
       /\ collection' = IF ~failing \/ removed THEN IndexAfterDelete(collection, ids)
                        ELSE collection
       /\ search_results' = <<>>
       /\ vs_ret' = NoReturn
       /\ UNCHANGED <<vs_initialized, vs_handles>>

\* get_collection_info: the count.
VSInfo ==
  IF NotInitialized(vs_initialized, vs_handles) THEN VSRefused("vs_info")
  ELSE /\ VSCall("vs_info", "ok", "")
       /\ search_results' = <<>>
       /\ vs_ret' = [NoReturn EXCEPT !.count = Cardinality(collection)]
       /\ UNCHANGED <<vs_initialized, vs_handles, collection>>

\* clear_collection: every id got, then deleted when there is one.
VSClear ==
  IF NotInitialized(vs_initialized, vs_handles) THEN VSRefused("vs_clear")
  ELSE /\ VSCall("vs_clear", "ok", "")
       /\ collection' = IndexAfterDelete(collection, { r.id : r \in collection })
       /\ search_results' = <<>>
       /\ vs_ret' = NoReturn
       /\ UNCHANGED <<vs_initialized, vs_handles>>

\* get_all_document_ids
VSIds ==
  IF NotInitialized(vs_initialized, vs_handles) THEN VSRefused("vs_ids")
  ELSE /\ VSCall("vs_ids", "ok", "")
       /\ search_results' = <<>>
       /\ vs_ret' = [NoReturn EXCEPT !.ids = { r.id : r \in collection }]
       /\ UNCHANGED <<vs_initialized, vs_handles, collection>>

\* get_documents_by_source
VSBySource(source_filename) ==
  IF NotInitialized(vs_initialized, vs_handles) THEN VSRefused("vs_by_source")
  ELSE /\ VSCall("vs_by_source", "ok", "")
       /\ search_results' = <<>>
       /\ vs_ret' = [NoReturn EXCEPT !.ids =
                       { r.id : r \in { x \in collection :
                                          /\ "source" \in DOMAIN x.metadata
                                          /\ x.metadata["source"] = source_filename } }]
       /\ UNCHANGED <<vs_initialized, vs_handles, collection>>

VSNext ==
  \/ \E fault \in VSInitFaults : VSInitialize(fault)
  \/ \E batch \in Batches, dup \in DuplicateModes : VSAdd(batch, dup)
  \/ \E question \in Questions, tie \in TieOrders : VSQuery(question, tie)
  \/ \E ids \in IdLists, failing \in BOOLEAN, removed \in BOOLEAN :
       VSDelete(ids, failing, removed)
  \/ VSInfo
  \/ VSClear
  \/ VSIds
  \/ \E f \in Files : VSBySource(f.name)

VSSpec == Init /\ [][VSNext]_vars

----------------------------------------------------------------------------
(* Two add_document coroutines on one event loop, taken apart at their     *)
(* await expressions: the event loop may run the other coroutine at each.  *)

\* The two requests.
Tasks == {"a", "b"}

\* The frame of a coroutine: where it stands, its document_path, the branch
\* it took at `if not self.initialized`, its doc_id (0: not drawn), and what
\* it raised ("": nothing).
Frame(pc, file, took_init, doc_id, raised) ==
  [pc |-> pc, file |-> file, took_init |-> took_init, doc_id |-> doc_id, raised |-> raised]

\* The frames with the frame of t set.
Put(frames, t, frame) ==
  [k \in (DOMAIN frames) \cup {t} |-> IF k = t THEN frame ELSE frames[k]]

At(t, pc) == t \in DOMAIN tasks /\ tasks[t].pc = pc

\* What a step of a coroutine leaves alone besides the stores.
StepFrame ==
  UNCHANGED <<op, arg, outcome, stage, doc_id_ret, search_results, llm_out, response,
              calls, status, upload_dir, vs_ret>>

\* The request arrives: add_document(document_path, metadata) is called.
Start(t, file) ==
  /\ t \notin DOMAIN tasks
  /\ tasks' = Put(tasks, t, Frame("start", file, FALSE, 0, ""))
  /\ StepFrame
  /\ UNCHANGED <<initialized, vs_initialized, vs_handles, documents_metadata,
                 collection, uuid_count>>

\* if not self.initialized: await self.initialize(), up to its
\* `await vector_store.initialize(...)`.
CheckInitialized(t) ==
  /\ At(t, "start")
  /\ tasks' = Put(tasks, t, [tasks[t] EXCEPT !.pc = IF initialized THEN "process" ELSE "init",
                                             !.took_init = ~initialized])
  /\ StepFrame
  /\ UNCHANGED <<initialized, vs_initialized, vs_handles, documents_metadata,
                 collection, uuid_count>>

\* vector_store.initialize(...) runs.
StoreInitialize(t) ==
  /\ At(t, "init")
  /\ vs_initialized' = TRUE
  /\ vs_handles' = HandlesAfterInitialize(vs_initialized, vs_handles)
  /\ tasks' = Put(tasks, t, [tasks[t] EXCEPT !.pc = "init_done"])
  /\ StepFrame
  /\ UNCHANGED <<initialized, documents_metadata, collection, uuid_count>>

\* self.initialized = True, up to `await document_processor.process_file(...)`.
SetInitialized(t) ==
  /\ At(t, "init_done")
  /\ initialized' = TRUE
  /\ tasks' = Put(tasks, t, [tasks[t] EXCEPT !.pc = "process"])
  /\ StepFrame
  /\ UNCHANGED <<vs_initialized, vs_handles, documents_metadata, collection, uuid_count>>

\* process_file runs; then chunk_text, the emptiness check, uuid4,
\* embed_documents and the metadata loop, up to `await vector_store.add_documents`.
ProcessAndChunk(t) ==
  /\ At(t, "process")
  /\ LET doc_data == process_file(tasks[t].file, FALSE)
         chunks   == chunk_text(doc_data.text)
         at       == AddStage(doc_data, chunks, "none")
         doc_id   == uuid4(uuid_count)
     IN /\ uuid_count' = IF at = "" THEN doc_id ELSE uuid_count
        /\ tasks' = Put(tasks, t,
                        CASE at = "" -> [tasks[t] EXCEPT !.pc = "add", !.doc_id = doc_id]
                          [] at = "chunk" -> [tasks[t] EXCEPT !.pc = "failed", !.raised = "ValueError"]
                          [] OTHER -> [tasks[t] EXCEPT !.pc = "failed", !.raised = "Exception"])
  /\ StepFrame
  /\ UNCHANGED <<initialized, vs_initialized, vs_handles, documents_metadata, collection>>

\* The batch a coroutine holds in its locals.
BatchOf(frame, metadata) ==
  LET doc_data == process_file(frame.file, FALSE)
  IN ChunkRecords(doc_data, chunk_text(doc_data.text), frame.doc_id, metadata)

\* vector_store.add_documents(...) runs: collection.add of the batch.
AddToIndex(t) ==
  /\ At(t, "add")
  /\ collection' = IndexAfterAdd(collection, BatchOf(tasks[t], UploadMetadata), "", 0)
  /\ tasks' = Put(tasks, t, [tasks[t] EXCEPT !.pc = "register"])
  /\ StepFrame
  /\ UNCHANGED <<initialized, vs_initialized, vs_handles, documents_metadata, uuid_count>>

\* self.documents_metadata[doc_id] = {...}; return doc_id.
Register(t) ==
  /\ At(t, "register")
  /\ LET doc_data == process_file(tasks[t].file, FALSE)
     IN documents_metadata' =
          RegistryAfterAdd(documents_metadata, "", tasks[t].doc_id,
                           DocumentRecord(doc_data, tasks[t].doc_id,
                                          chunk_text(doc_data.text), UploadMetadata))
  /\ tasks' = Put(tasks, t, [tasks[t] EXCEPT !.pc = "done"])
  /\ StepFrame
  /\ UNCHANGED <<initialized, vs_initialized, vs_handles, collection, uuid_count>>

ConcNext ==
  \/ \E t \in Tasks, file \in Files : Start(t, file)
  \/ \E t \in Tasks : CheckInitialized(t)
  \/ \E t \in Tasks : StoreInitialize(t)
  \/ \E t \in Tasks : SetInitialized(t)
  \/ \E t \in Tasks : ProcessAndChunk(t)
  \/ \E t \in Tasks : AddToIndex(t)
  \/ \E t \in Tasks : Register(t)

ConcSpec == Init /\ [][ConcNext]_vars

----------------------------------------------------------------------------
(* Properties *)

FileByName(name) == CHOOSE f \in Files : f.name = name

\* The index records that carry document id d in their metadata.
RecordsOf(coll, d) ==
  { r \in coll : "document_id" \in DOMAIN r.metadata /\ r.metadata["document_id"] = d }

\* The non-blank segments of a file, in order.
RECURSIVE NonBlank(_)
NonBlank(segs) ==
  IF segs = <<>> THEN <<>>
  ELSE IF Head(segs).pre = "" THEN NonBlank(Tail(segs))
  ELSE <<Head(segs)>> \o NonBlank(Tail(segs))

\* C1: an add_document that fails (at extraction, at chunking, at the embedding
\* call or at the index write) leaves documents_metadata exactly as it was, and
\* the id it drew, if any, is not registered.
C1_FailedIngestionLeavesRegistry ==
  [][ (op' = "add" /\ outcome' # "ok") =>
        /\ stage' \in {"extract", "chunk", "embed", "index"}
        /\ documents_metadata' = documents_metadata
        /\ (stage' \in {"embed", "index"} => uuid_count' \notin DOMAIN documents_metadata')
    ]_vars

\* C1 witness: an ingestion failed at the index write after part of its batch
\* was written, and its id is not registered.
C1_Witness ==
  /\ op = "add"
  /\ stage = "index"
  /\ RecordsOf(collection, uuid_count) # {}
  /\ uuid_count \notin DOMAIN documents_metadata
  /\ documents_metadata # <<>>

\* C2: add_document of a file whose extracted text is whitespace only raises
\* ValueError, draws no id, makes no embedding call and no index write, and
\* leaves the registry and the index unchanged.
C2_ZeroChunksFailsClean ==
  [][ (/\ op' = "add"
       /\ stage' # "extract"
       /\ NonBlank(FileByName(arg'.file).segments) = <<>>) =>
        /\ outcome' = "ValueError"
        /\ stage' = "chunk"
        /\ documents_metadata' = documents_metadata
        /\ collection' = collection
        /\ uuid_count' = uuid_count
        /\ calls'.embed = 0
        /\ calls'.add = 0
    ]_vars

\* C2 witness: the whitespace-only file was rejected while both stores held data.
C2_Witness ==
  /\ op = "add"
  /\ arg.file = "blank.txt"
  /\ outcome = "ValueError"
  /\ collection # {}
  /\ documents_metadata # <<>>

\* C3: right after a successful add_document of a file of n >= 1 chunks, the
\* index holds exactly n records with the new document id, with ids
\* (doc_id, 0..n-1), chunk_index equal to the position, the text of that
\* position, total_chunks = n, and the registry entry has chunks_count = n.
C3_IngestedChunksComplete ==
  (op = "add" /\ outcome = "ok") =>
    LET d == doc_id_ret
        chunks == NonBlank(FileByName(arg.file).segments)
        n == Len(chunks)
        recs == RecordsOf(collection, d)
    IN /\ n >= 1
       /\ Cardinality(recs) = n
       /\ { r.id : r \in recs } = { ChunkId(d, i) : i \in 0..(n - 1) }
       /\ { r.metadata["chunk_index"] : r \in recs } = 0..(n - 1)
       /\ \A r \in recs :
            /\ r.id = ChunkId(d, r.metadata["chunk_index"])
            /\ r.document = chunks[r.metadata["chunk_index"] + 1]
            /\ r.metadata["total_chunks"] = n
       /\ d \in DOMAIN documents_metadata
       /\ documents_metadata[d]["id"] = d
       /\ documents_metadata[d]["chunks_count"] = n

\* C3 witness: policy.txt (three chunks) was ingested as the second document.
C3_Witness ==
  /\ op = "add"
  /\ outcome = "ok"
  /\ arg.file = "policy.txt"
  /\ doc_id_ret = 2
  /\ Cardinality(RecordsOf(collection, 2)) = 3
  /\ documents_metadata[2]["chunks_count"] = 3

\* C4: when delete_document(id) returns, no index record carries that id and
\* the registry has no entry for it; it returns also when no chunk was found
\* (the delete call is then not made); a second delete of the same id right
\* after changes nothing.
C4_DeleteComplete ==
  [][ /\ (op' = "delete" /\ outcome' = "ok") =>
           /\ RecordsOf(collection', arg'.document_id) = {}
           /\ arg'.document_id \notin DOMAIN documents_metadata'
           /\ (op = "delete" /\ outcome = "ok" /\ arg = arg') =>
                 /\ collection' = collection
                 /\ documents_metadata' = documents_metadata
      /\ (op' = "delete" /\ RecordsOf(collection, arg'.document_id) = {}) =>
           /\ calls'.delete = 0
           /\ stage' \in {"", "get"}
           /\ collection' = collection
    ]_vars

\* C4 witness: a delete of an issued id found chunks, removed them and returned,
\* while records and the registry entry of another document stayed.
C4_Witness ==
  /\ op = "delete"
  /\ outcome = "ok"
  /\ calls.delete = 1
  /\ arg.document_id \in 1..uuid_count
  /\ \E r \in collection : "document_id" \in DOMAIN r.metadata
  /\ documents_metadata # <<>>

\* C5: a query whose retrieval is empty (as it is when the index is empty)
\* returns the fixed insufficient-knowledge answer, no sources and
\* context_used = FALSE, and the model is not called.
C5_EmptyRetrievalFixedAnswer ==
  (op = "query" /\ stage \notin {"embed", "search"}) =>
    /\ collection = {} => search_results = <<>>
    /\ search_results = <<>> =>
         /\ outcome = "ok"
         /\ response.answer = InsufficientMsg
         /\ response.sources = <<>>
         /\ response.context_used = FALSE
         /\ calls.llm = 0
         /\ llm_out = ""

\* C5 witness: a query ran against the empty index after a document had been
\* ingested and deleted again.
C5_Witness ==
  /\ op = "query"
  /\ outcome = "ok"
  /\ collection = {}
  /\ uuid_count > 0
  /\ response.answer = InsufficientMsg
  /\ calls.search = 1

\* C6: a query whose retrieval is non-empty calls the model exactly once and,
\* when the model answers, returns that output as the answer with
\* context_used = TRUE whatever the output; over all returning queries
\* context_used is TRUE exactly when the retrieval was non-empty.
C6_GroundedIffRetrieved ==
  /\ (op = "query" /\ search_results # <<>>) =>
       /\ calls.llm = 1
       /\ outcome = "ok" =>
            /\ llm_out \in LLMOutputs
            /\ response.answer = llm_out
            /\ response.context_used = TRUE
  /\ (op = "query" /\ outcome = "ok") =>
       (response.context_used <=> search_results # <<>>)

\* C6 witness: the model answered the not-related message over a non-empty
\* retrieval and the response is grounded.
C6_Witness ==
  /\ op = "query"
  /\ outcome = "ok"
  /\ search_results # <<>>
  /\ llm_out = NotRelatedMsg
  /\ response.answer = NotRelatedMsg
  /\ response.context_used

\* Whether the last retrieval holds a chunk of document d.
Retrieved(d) ==
  \E i \in 1..Len(search_results) :
    search_results[i].id \in { r.id : r \in RecordsOf(collection, d) }

\* Whether the last response cites document d's filename.
Cited(d) ==
  \E j \in 1..Len(response.sources) :
    response.sources[j].document_name = documents_metadata[d]["filename"]

\* C7: for every registered document D, a returning query whose retrieval holds
\* a chunk of D is grounded and cites D's filename; when all chunks of D are
\* indexed and the index holds at most top_k records, every returning query
\* retrieves and cites D.
C7_RoundTrip ==
  (op = "query" /\ outcome = "ok") =>
    \A d \in DOMAIN documents_metadata :
      /\ Retrieved(d) => (response.context_used /\ Cited(d))
      /\ (/\ Cardinality(RecordsOf(collection, d)) = documents_metadata[d]["chunks_count"]
          /\ Cardinality(collection) <= TopK) =>
           (Retrieved(d) /\ response.context_used /\ Cited(d))

\* C7 witness: a registered document shares an index of at most top_k records
\* with a record of another writer, and a query retrieved and cited it.
C7_Witness ==
  /\ op = "query"
  /\ outcome = "ok"
  /\ LegacyRecord \in collection
  /\ Cardinality(collection) <= TopK
  /\ \E d \in DOMAIN documents_metadata :
       /\ Cardinality(RecordsOf(collection, d)) = documents_metadata[d]["chunks_count"]
       /\ Retrieved(d)
       /\ Cited(d)

\* Two source entries are the same excerpt.
SameExcerpt(a, b) == a.document_name = b.document_name /\ a.content = b.content

\* Two stored texts show the same preview.
SamePreview(t, u) ==
  IF t.len > PreviewLen \/ u.len > PreviewLen
    THEN t.len > PreviewLen /\ u.len > PreviewLen /\ t.pre = u.pre
    ELSE t = u

\* C8 as stated: no two entries of a returned sources list are the same excerpt.
C8_SourcesDeduplicated ==
  (op = "query" /\ outcome = "ok") =>
    \A i, j \in 1..Len(response.sources) :
      i # j => ~SameExcerpt(response.sources[i], response.sources[j])

\* C8 amended: the sources list is not deduplicated.  It has one entry per
\* retrieved chunk, the retrieved chunks are distinct records, and two entries
\* are the same excerpt exactly when their two chunks have the same 'source'
\* and the same preview.
C8_SourcesPerChunk ==
  (op = "query" /\ outcome = "ok") =>
    /\ Len(response.sources) = Len(search_results)
    /\ \A i, j \in 1..Len(search_results) :
         i # j =>
           /\ search_results[i].id # search_results[j].id
           /\ SameExcerpt(response.sources[i], response.sources[j]) <=>
                /\ DictGet(search_results[i].metadata, "source", "Unknown")
                     = DictGet(search_results[j].metadata, "source", "Unknown")
                /\ SamePreview(search_results[i].document, search_results[j].document)

\* C8 witness: a response lists the same excerpt twice, for two chunks of one
\* document that hold the same text.
C8_Witness ==
  /\ op = "query"
  /\ outcome = "ok"
  /\ \E i, j \in 1..Len(response.sources) :
       /\ i # j
       /\ SameExcerpt(response.sources[i], response.sources[j])
       /\ search_results[i].metadata["document_id"] = search_results[j].metadata["document_id"]
       /\ search_results[i].id # search_results[j].id

\* C9: the sources list of a non-empty retrieval of m chunks has m entries in
\* rank order; entry j names the 'source' of chunk j, or "Unknown" without that
\* key, and its content is the chunk text when that has at most 200 characters,
\* else its first 200 characters followed by "...".
C9_SourcesMirrorRetrieval ==
  (op = "query" /\ outcome = "ok" /\ search_results # <<>>) =>
    /\ Len(response.sources) = Len(search_results)
    /\ \A j \in 1..Len(search_results) :
         LET md == search_results[j].metadata
             text == search_results[j].document
             entry == response.sources[j]
         IN /\ entry.document_name =
                 (IF "source" \in DOMAIN md THEN md["source"] ELSE "Unknown")
            /\ entry.content =
                 (IF text.len <= 200 THEN text
                  ELSE [pre |-> text.pre, rest |-> <<"...">>, len |-> 203])

\* C9 witness: one retrieval holds a record without 'source', a text of exactly
\* 200 characters and a text of 201 characters.
C9_Witness ==
  /\ op = "query"
  /\ outcome = "ok"
  /\ \E i, j, k \in 1..Len(search_results) :
       /\ "source" \notin DOMAIN search_results[i].metadata
       /\ response.sources[i].document_name = "Unknown"
       /\ search_results[j].document.len = 200
       /\ response.sources[j].content.len = 200
       /\ search_results[k].document.len = 201
       /\ response.sources[k].content.len = 203

\* C10: entry j's relevance score is 1 minus the distance of chunk j (in
\* tenths: 10 - distance); the retrieval is in ascending distance and the
\* scores are in descending order; distances 0.1, 0.3, 0.5 give 0.9, 0.7, 0.5.
C10_ScoreIsOneMinusDistance ==
  (op = "query" /\ outcome = "ok" /\ search_results # <<>>) =>
    LET m == Len(search_results)
        dist == [j \in 1..m |-> search_results[j].distance]
        score == [j \in 1..m |-> response.sources[j].relevance_score]
    IN /\ Len(response.sources) = m
       /\ \A j \in 1..m : score[j] + dist[j] = 10
       /\ \A i, j \in 1..m : i < j => (dist[i] <= dist[j] /\ score[i] >= score[j])
       /\ dist = <<1, 3, 5>> => score = <<9, 7, 5>>

\* C10 witness: a retrieval at distances 0.1, 0.3, 0.5 scored 0.9, 0.7, 0.5.
C10_Witness ==
  /\ op = "query"
  /\ outcome = "ok"
  /\ Len(search_results) = 3
  /\ [j \in 1..3 |-> search_results[j].distance] = <<1, 3, 5>>
  /\ [j \in 1..3 |-> response.sources[j].relevance_score] = <<9, 7, 5>>


\* C11: a failure of the embedding call, of the index search or of the model
\* call in a query surfaces as an error after one attempt: every external
\* service is called at most once per query, none is called after the one that
\* failed, no answer is returned (chat_endpoint answers 500), and the registry
\* and the index are unchanged.
C11_QueryFailureSurfaces ==
  [][ op' = "query" =>
        /\ calls'.embed <= 1
        /\ calls'.search <= 1
        /\ calls'.llm <= 1
        /\ documents_metadata' = documents_metadata
        /\ collection' = collection
        /\ (outcome' # "ok" =>
              /\ stage' \in {"embed", "search", "llm"}
              /\ (stage' = "embed" => calls'.search = 0 /\ calls'.llm = 0)
              /\ (stage' = "search" => calls'.llm = 0)
              /\ response' = NoResponse
              /\ status' = 500)
        /\ (outcome' = "ok" => status' = 200)
    ]_vars

\* C11 witness: the model call of a query failed after a non-empty retrieval,
\* with a document registered, and the endpoint answered 500.
C11_Witness ==
  /\ op = "query"
  /\ stage = "llm"
  /\ outcome = "Exception"
  /\ status = 500
  /\ search_results # <<>>
  /\ documents_metadata # <<>>


\* C12: an upload whose file extension is not in the allow-list is answered
\* with a client-fault status (4xx), not a server-fault one (5xx), and writes
\* nothing to the registry, the index or the upload directory.
C12_RejectedUploadIsClientFault ==
  [][ (op' = "upload" /\ ~ValidFile(FileByName(arg'.file))) =>
        /\ status' \in 400..499
        /\ documents_metadata' = documents_metadata
        /\ collection' = collection
        /\ upload_dir' = upload_dir
    ]_vars


\* C13: a get or delete request for a document id that is not in the registry
\* is answered 404 (not a validation status, not a server fault, not a
\* success), and leaves the registry and the index unchanged.
C13_AbsentIdIsNotFound ==
  [][ (/\ op' \in {"get", "delete"}
       /\ arg'.document_id \notin DOMAIN documents_metadata) =>
        /\ status' = 404
        /\ outcome' = "HTTPException"
        /\ documents_metadata' = documents_metadata
        /\ collection' = collection
    ]_vars

\* C13 witness: a delete request for an unregistered id was answered 404
\* while the index held records carrying that id and another document was
\* registered.
C13_Witness ==
  /\ op = "delete"
  /\ status = 404
  /\ arg.document_id \notin DOMAIN documents_metadata
  /\ RecordsOf(collection, arg.document_id) # {}
  /\ documents_metadata # <<>>


\* The names of the access-layer operations other than initialize.
VSOperations ==
  {"vs_add", "vs_query", "vs_delete", "vs_info", "vs_clear", "vs_ids", "vs_by_source"}

\* C14: every access-layer operation called before initialize has succeeded
\* fails with the not-initialized condition and leaves the store as it was;
\* once initialize has succeeded none fails with that condition; an initialize
\* after that is a no-op that keeps the same client and the same collection.
C14_NotInitializedCondition ==
  [][ /\ (op' \in VSOperations /\ ~vs_initialized) =>
            /\ outcome' = "RuntimeError"
            /\ collection' = collection
            /\ vs_handles' = vs_handles
            /\ vs_initialized' = vs_initialized
      /\ (op' \in VSOperations /\ vs_initialized) =>
            /\ outcome' # "RuntimeError"
            /\ vs_initialized'
      /\ (op' = "vs_initialize" /\ vs_initialized) =>
            /\ outcome' = "ok"
            /\ vs_initialized'
            /\ vs_handles' = vs_handles
            /\ collection' = collection
    ]_vars

\* C14 witness: initialize returned early on a store that a second client
\* serves (an earlier initialize had failed after constructing the first) and
\* that holds records added through the access layer.
C14_Witness ==
  /\ op = "vs_initialize"
  /\ stage = "return"
  /\ vs_initialized
  /\ vs_handles.client = 2
  /\ vs_handles.collection = 2
  /\ \E r \in collection : r.id[1] > 0


\* A coroutine that has drawn its document id.
Drawn(t) == t \in DOMAIN tasks /\ tasks[t].doc_id # 0

\* C15: however two add_document coroutines interleave at their awaits (two
\* ingestions of the same file included), they draw distinct document ids; a
\* coroutine fails only on a file without extractable text; once one has
\* written its batch, and after it returned, the index holds exactly its records
\* under its id whatever the other does; and when it has returned, its id is
\* registered with chunks_count equal to the number of index records that carry
\* that id.
C15_ConcurrentIngestionSafe ==
  /\ \A t, u \in Tasks :
       (t # u /\ Drawn(t) /\ Drawn(u)) => tasks[t].doc_id # tasks[u].doc_id
  /\ \A t \in Tasks :
       At(t, "failed") => chunk_text(process_file(tasks[t].file, FALSE).text) = <<>>
  /\ \A t \in Tasks :
       (At(t, "register") \/ At(t, "done")) =>
         RecordsOf(collection, tasks[t].doc_id) = BatchOf(tasks[t], UploadMetadata)
  /\ \A t \in Tasks :
       At(t, "done") =>
         /\ tasks[t].doc_id \in DOMAIN documents_metadata
         /\ documents_metadata[tasks[t].doc_id]["filename"] = tasks[t].file.name
         /\ documents_metadata[tasks[t].doc_id]["chunks_count"] =
              Cardinality(RecordsOf(collection, tasks[t].doc_id))

\* C15 witness: two ingestions of the same file have both returned, and both
\* had found the service not initialized (the second started before the first
\* had finished initializing).
C15_Witness ==
  /\ At("a", "done")
  /\ At("b", "done")
  /\ tasks["a"].took_init
  /\ tasks["b"].took_init
  /\ tasks["a"].file.name = "policy.txt"
  /\ tasks["b"].file.name = "policy.txt"
  /\ Cardinality(DOMAIN documents_metadata) = 2
  /\ LegacyRecord \in collection


\* The document_id values that index records carry.
IndexedIds ==
  { r.metadata["document_id"] : r \in { x \in collection : "document_id" \in DOMAIN x.metadata } }

\* C16: on a new installation, after any sequence of ingestions and deletions
\* through the orchestrator with no failing collaborator, the document ids
\* carried by index records are exactly the registry's ids, every index record
\* carries one, and for each id the number of its index records is the
\* entry's chunks_count.
C16_StoresConsistent ==
  /\ IndexedIds = DOMAIN documents_metadata
  /\ \A r \in collection : "document_id" \in DOMAIN r.metadata
  /\ \A d \in DOMAIN documents_metadata :
       /\ documents_metadata[d]["id"] = d
       /\ documents_metadata[d]["chunks_count"] = Cardinality(RecordsOf(collection, d))

\* C16 witness: two documents were ingested and one of them was deleted; the
\* other is registered and indexed.
C16_Witness ==
  /\ op = "delete"
  /\ outcome = "ok"
  /\ uuid_count = 2
  /\ Cardinality(DOMAIN documents_metadata) = 1
  /\ arg.document_id \notin DOMAIN documents_metadata
  /\ collection # {}


\* C17: when the index's delete call fails during delete_document, the
\* exception reaches the caller after that one call and the registry is left
\* as it was, so a registered document stays registered (listed, found by
\* id) for a later deletion request.
C17_FailedDeleteKeepsEntry ==
  [][ (op' = "delete" /\ stage' = "delete") =>
        /\ outcome' = "Exception"
        /\ calls'.delete = 1
        /\ documents_metadata' = documents_metadata
        /\ (arg'.document_id \in DOMAIN documents_metadata =>
              /\ arg'.document_id \in DOMAIN documents_metadata'
              /\ documents_metadata'[arg'.document_id]["id"] = arg'.document_id)
    ]_vars

\* C17 witness: the delete call failed for a registered document whose chunk
\* records are still in the index.
C17_Witness ==
  /\ op = "delete"
  /\ stage = "delete"
  /\ outcome = "Exception"
  /\ arg.document_id \in DOMAIN documents_metadata
  /\ RecordsOf(collection, arg.document_id) # {}


\* C18: whatever metadata the caller passes to add_document, the registry
\* entry stored under the generated id has id equal to that id and
\* chunks_count equal to the number of chunks written, and every chunk record
\* written has document_id equal to the generated id and chunk_index equal to
\* its position.
C18_CallerMetadataNeverOverrides ==
  (op = "add" /\ outcome = "ok") =>
    LET written == { r \in collection : r.id[1] = doc_id_ret }
    IN /\ doc_id_ret \in DOMAIN documents_metadata
       /\ documents_metadata[doc_id_ret]["id"] = doc_id_ret
       /\ documents_metadata[doc_id_ret]["chunks_count"] = Cardinality(written)
       /\ \A r \in written :
            /\ r.metadata["document_id"] = doc_id_ret
            /\ r.metadata["chunk_index"] = r.id[2]

====
